---- MODULE Spec2Model ----
(***************************************************************************)
(* The file-based schema-migration engine of database/migration.go:        *)
(* MigrationManager.RunMigrations (apply-all) and Rollback against the     *)
(* public.migrations ledger table, with the script corpus on disk.         *)
(* Strings are sequences of one-character strings, so that the filename   *)
(* and content parsing of the source is computed, not assumed.             *)
(***************************************************************************)
EXTENDS Integers, Sequences, FiniteSets, TLC

VARIABLES
    files,        \* the .sql files present under database/migrations (set of paths)
    stripped,     \* the files whose DOWN section the developer has deleted
    tableExists,  \* public.migrations exists
    cols,         \* which of the later-added columns the table has
    ledger,       \* rows of public.migrations
    schema,       \* versions whose UP effects are committed and not reverted
    now,          \* database clock, source of executed_at; every commit is
                  \* later than the ones before it (no two rows tie)
    pc,           \* "idle", or "running" inside RunMigrations' loop
    queue,        \* migrations the loop of RunMigrations has still to visit
    run,          \* history of the current / most recent RunMigrations call
    last,         \* history of the most recent completed operation
    fsChanges,    \* how many times a file was added, removed or edited
    cli,          \* the migrate command run with -action reset
    api,          \* the API process: the position of its main
    probe,        \* a script content handed to splitMigrationContent, and the result
    race,         \* two processes inside RunMigrations at once, statement by statement
    created       \* the call of CreateMigrationFile and the file it wrote

\* the variables of the operations that run beside the engine
tools == <<probe, race, created>>

vars == <<files, stripped, tableExists, cols, ledger, schema, now, pc, queue, run, last,
          fsChanges, cli, api, tools>>

(***************************************************************************)
(* Bounds of the model.                                                    *)
(***************************************************************************)
MaxClock == 3
MaxLegacyRows == 1
MaxFsChanges == 1

(***************************************************************************)
(* Go string functions used by the source, on sequences of characters.     *)
(***************************************************************************)
Space == {" ", "\t", "\n", "\r"}

RECURSIVE TrimLeft(_)
TrimLeft(s) ==
    IF s # <<>> /\ Head(s) \in Space THEN TrimLeft(Tail(s)) ELSE s

RECURSIVE TrimRight(_)
TrimRight(s) ==
    IF s # <<>> /\ s[Len(s)] \in Space THEN TrimRight(SubSeq(s, 1, Len(s) - 1)) ELSE s

TrimSpace(s) == TrimRight(TrimLeft(s))

HasPrefix(s, p) == Len(s) >= Len(p) /\ SubSeq(s, 1, Len(p)) = p

HasSuffix(s, p) == Len(s) >= Len(p) /\ SubSeq(s, Len(s) - Len(p) + 1, Len(s)) = p

TrimSuffix(s, p) == IF HasSuffix(s, p) THEN SubSeq(s, 1, Len(s) - Len(p)) ELSE s

\* index of the first occurrence of character c in s, 0 when there is none
RECURSIVE IndexFrom(_, _, _)
IndexFrom(s, c, i) ==
    IF i > Len(s) THEN 0
    ELSE IF s[i] = c THEN i
    ELSE IndexFrom(s, c, i + 1)

Index(s, c) == IndexFrom(s, c, 1)

\* strings.Split(s, c): always at least one part
RECURSIVE Split(_, _)
Split(s, c) ==
    LET i == Index(s, c) IN
    IF i = 0 THEN <<s>>
    ELSE <<SubSeq(s, 1, i - 1)>> \o Split(SubSeq(s, i + 1, Len(s)), c)

\* strings.SplitN(s, c, 2)
SplitN2(s, c) ==
    LET i == Index(s, c) IN
    IF i = 0 THEN <<s>>
    ELSE <<SubSeq(s, 1, i - 1), SubSeq(s, i + 1, Len(s))>>

RECURSIVE Join(_, _)
Join(parts, c) ==
    IF parts = <<>> THEN <<>>
    ELSE IF Len(parts) = 1 THEN parts[1]
    ELSE parts[1] \o <<c>> \o Join(Tail(parts), c)

ReplaceAll(s, old, new) == [i \in 1..Len(s) |-> IF s[i] = old THEN new ELSE s[i]]

Digits == {"0", "1", "2", "3", "4", "5", "6", "7", "8", "9"}

DigitVal(c) ==
    CASE c = "0" -> 0 [] c = "1" -> 1 [] c = "2" -> 2 [] c = "3" -> 3 [] c = "4" -> 4
      [] c = "5" -> 5 [] c = "6" -> 6 [] c = "7" -> 7 [] c = "8" -> 8 [] c = "9" -> 9

RECURSIVE DigitsVal(_, _)
DigitsVal(s, acc) ==
    IF s = <<>> THEN acc ELSE DigitsVal(Tail(s), 10 * acc + DigitVal(Head(s)))

\* strconv.Atoi: an optional sign, then one or more decimal digits; on a
\* syntax error the value returned with the error is 0
Atoi(s) ==
    LET signed == s # <<>> /\ Head(s) \in {"+", "-"}
        body   == IF signed THEN Tail(s) ELSE s
        ok     == body # <<>> /\ \A i \in 1..Len(body) : body[i] \in Digits
        mag    == DigitsVal(body, 0)
    IN  [val |-> IF ~ok THEN 0 ELSE IF signed /\ Head(s) = "-" THEN 0 - mag ELSE mag,
         ok  |-> ok]

(***************************************************************************)
(* The script corpus.  A path is database/migrations/<dir>/<name>; the     *)
(* universe of scripts that may be on disk is fixed, which of them are     *)
(* present is the state variable files.                                    *)
(***************************************************************************)
DotSql == <<".", "s", "q", "l">>
UpMarker == <<"-", "-", " ", "U", "P">>
UpMarkerTight == <<"-", "-", "U", "P">>
DownMarker == <<"-", "-", " ", "D", "O", "W", "N">>
DownMarkerTight == <<"-", "-", "D", "O", "W", "N">>
NL == <<"\n">>

Path1 == [dir |-> "user_management", name |-> <<"0", "0", "1", "_", "a">> \o DotSql]
Path2 == [dir |-> "user_management", name |-> <<"0", "0", "2", "_", "b">> \o DotSql]
Path3 == [dir |-> "sensor_data", name |-> <<"0", "0", "3", "_", "c", "_", "d">> \o DotSql]

AllPaths == {Path1, Path2, Path3}

\* scripts a corpus should not hold, and one without markers: a second script
\* of version 001 in another module directory, a version token that is not
\* an integer, a name without the "_" separator, a file that cannot be read,
\* a script with forward content and no DOWN marker, and a script with two
\* UP and two DOWN blocks
PathDup == [dir |-> "sensor_data", name |-> <<"0", "0", "1", "_", "x">> \o DotSql]
PathAlpha == [dir |-> "cross_module", name |-> <<"v", "2", "_", "y">> \o DotSql]
PathNoSep == [dir |-> "user_management", name |-> <<"r", "e", "a", "d", "m", "e">> \o DotSql]
PathLocked == [dir |-> "sensor_data", name |-> <<"0", "0", "4", "_", "z">> \o DotSql]
PathNoDown == [dir |-> "cross_module", name |-> <<"0", "0", "5", "_", "e">> \o DotSql]
PathMulti == [dir |-> "cross_module", name |-> <<"0", "0", "6", "_", "m">> \o DotSql]

IrregularPaths == {PathDup, PathAlpha, PathNoSep, PathLocked, PathNoDown, PathMulti}

\* files whose os.ReadFile fails although they are listed
Unreadable == {PathLocked}

\* the corpora with one of those scripts beside 001_a.sql and 002_b.sql
IrregularCorpora == {c \cup {q} : c \in SUBSET {Path1, Path2}, q \in IrregularPaths}

\* what os.ReadFile returns for each script of the universe: two scripts with
\* a forward and a reverse section, one with a blank forward section and no
\* DOWN marker
FileContent(p) ==
    CASE p = Path1 -> UpMarker \o NL \o <<"A">> \o NL \o NL \o DownMarker \o NL \o <<"a">> \o NL
      [] p = Path2 -> UpMarker \o NL \o <<"B">> \o NL \o <<" ">> \o DownMarker \o NL \o <<"b">>
      [] p = Path3 -> UpMarker \o NL \o <<" ">> \o NL
      [] p = PathDup -> UpMarker \o NL \o <<"X">> \o NL \o DownMarkerTight \o NL \o <<"x">>
      [] p = PathAlpha -> UpMarkerTight \o NL \o <<"Y">> \o NL \o DownMarker \o NL \o <<"y">>
      [] p = PathNoSep -> UpMarker \o NL \o <<"R">> \o NL \o DownMarker \o NL \o <<"r">>
      [] p = PathNoDown -> <<"E">> \o NL \o <<"F">> \o NL
      [] p = PathMulti -> UpMarker \o NL \o <<"M">> \o NL \o DownMarker \o NL \o <<"m">> \o NL
                          \o UpMarker \o NL \o <<"N">> \o NL \o DownMarker \o NL \o <<"n">>
      [] OTHER -> <<>>

\* the loop of splitMigrationContent over the lines, carrying inDownSection
RECURSIVE SplitLines(_, _, _, _)
SplitLines(lines, inDownSection, upLines, downLines) ==
    IF lines = <<>> THEN <<upLines, downLines>>
    ELSE LET line    == Head(lines)
             trimmed == TrimSpace(line)
         IN  IF HasPrefix(trimmed, DownMarker) \/ HasPrefix(trimmed, DownMarkerTight)
             THEN SplitLines(Tail(lines), TRUE, upLines, downLines)
             ELSE IF HasPrefix(trimmed, UpMarker) \/ HasPrefix(trimmed, UpMarkerTight)
             THEN SplitLines(Tail(lines), FALSE, upLines, downLines)
             ELSE IF inDownSection
             THEN SplitLines(Tail(lines), inDownSection, upLines, Append(downLines, line))
             ELSE SplitLines(Tail(lines), inDownSection, Append(upLines, line), downLines)

splitMigrationContent(content) ==
    LET r == SplitLines(Split(content, "\n"), FALSE, <<>>, <<>>)
    IN  [up |-> Join(r[1], "\n"), down |-> Join(r[2], "\n")]

NoPath == [dir |-> "", name |-> <<>>]

NoMigration ==
    [Version |-> <<>>, Description |-> <<>>, Module |-> "", UpSQL |-> <<>>,
     DownSQL |-> <<>>, FilePath |-> NoPath]

\* parseMigrationFile once the file is read (filename and content): [err, m]
parseFile(filePath, content) ==
    LET parts == SplitN2(filePath.name, "_") IN
    IF filePath \in Unreadable
    THEN [err |-> "read", m |-> NoMigration]
    ELSE IF Len(parts) < 2
    THEN [err |-> "filename", m |-> NoMigration]
    ELSE LET sql == splitMigrationContent(content) IN
         [err |-> "none",
          m   |-> [Version     |-> parts[1],
                   Description |-> ReplaceAll(TrimSuffix(parts[2], DotSql), "_", " "),
                   Module      |-> filePath.dir,
                   UpSQL       |-> sql.up,
                   DownSQL     |-> sql.down,
                   FilePath    |-> filePath]]

\* the lines of a script before its first DOWN marker line
RECURSIVE BeforeDown(_)
BeforeDown(lines) ==
    IF lines = <<>> THEN <<>>
    ELSE IF HasPrefix(TrimSpace(Head(lines)), DownMarker)
             \/ HasPrefix(TrimSpace(Head(lines)), DownMarkerTight)
    THEN <<>>
    ELSE <<Head(lines)>> \o BeforeDown(Tail(lines))

\* the content of a script once its DOWN marker and what follows are deleted
StripDown(content) == Join(BeforeDown(Split(content, "\n")), "\n")

\* what os.ReadFile returns for a script on disk
ReadFile(edited, p) == IF p \in edited THEN StripDown(FileContent(p)) ELSE FileContent(p)

\* each script is parsed once, as written and with its DOWN section deleted
ParsedFiles ==
    {<<p, b, parseFile(p, ReadFile(IF b THEN {p} ELSE {}, p))>> :
        p \in AllPaths \cup IrregularPaths, b \in BOOLEAN}

\* the scripts with a reverse section the developer may delete
Editable == {p \in AllPaths : TrimSpace(parseFile(p, FileContent(p)).m.DownSQL) # <<>>}

\* variant: the script is read whether or not it is on disk
parseMigrationFileAnyway(onDisk, edited, filePath) ==
    (CHOOSE e \in ParsedFiles : e[1] = filePath /\ e[2] = (filePath \in edited))[3]

\* parseMigrationFile against the files on disk: os.ReadFile fails for a file
\* that is not there
parseMigrationFile(onDisk, edited, filePath) ==
    IF filePath \notin onDisk
    THEN [err |-> "read", m |-> NoMigration]
    ELSE (CHOOSE e \in ParsedFiles : e[1] = filePath /\ e[2] = (filePath \in edited))[3]

(***************************************************************************)
(* The ledger table public.migrations.  A row is                           *)
(* [version, description, module, file_path, executed_at]; a nullable      *)
(* column holds <<>> for NULL and <<v>> for the value v.                   *)
(***************************************************************************)
Null == <<>>
AllCols == {"module", "file_path"}

Versions(rows) == {r.version : r \in rows}

\* variant: the count of all rows, whatever their version
CountVersionAny(rows, version) == Cardinality(rows)

\* SELECT COUNT(*) FROM public.migrations WHERE version = $1
CountVersion(rows, version) == Cardinality({r \in rows : r.version = version})

\* variants: the row executed first, and the row of the highest version
OldestRows(rows) == {r \in rows : \A s \in rows : r.executed_at <= s.executed_at}

HighestVersionRows(rows) ==
    {r \in rows : \A s \in rows : Atoi(s.version).val <= Atoi(r.version).val}

\* ORDER BY executed_at DESC LIMIT 1: the rows that query may return
LatestRows(rows) == {r \in rows : \A s \in rows : s.executed_at <= r.executed_at}

\* the row INSERT INTO public.migrations (version, description, module, file_path)
\* adds, executed_at taking its default
NewRow(m, at) ==
    [version |-> m.Version, description |-> m.Description, module |-> <<m.Module>>,
     file_path |-> <<m.FilePath>>, executed_at |-> at]

\* a row written by the engine before module and file_path existed
LegacyRow(m, at) ==
    [version |-> m.Version, description |-> m.Description, module |-> Null,
     file_path |-> Null, executed_at |-> at]

\* variant: the UPDATE also rewrites the description
BackfillModuleAndDescription(rows) ==
    {IF r.module = Null THEN [r EXCEPT !.module = <<"legacy">>, !.description = <<>>] ELSE r :
        r \in rows}

\* UPDATE public.migrations SET module = 'legacy' WHERE module IS NULL
BackfillModule(rows) ==
    {IF r.module = Null THEN [r EXCEPT !.module = <<"legacy">>] ELSE r : r \in rows}

\* variant: the ALTERs and the UPDATE are issued without the check of the column
migrateMigrationsTableNoCheck(db, fault) ==
    IF fault = "add_module" \/ "module" \in db.cols THEN [db |-> db, err |-> "add_module"]
    ELSE LET d2 == [db EXCEPT !.cols = @ \cup {"module"}] IN
         IF fault = "add_file_path" \/ "file_path" \in d2.cols
         THEN [db |-> d2, err |-> "add_file_path"]
         ELSE LET d3 == [d2 EXCEPT !.cols = @ \cup {"file_path"}] IN
              IF fault = "update" THEN [db |-> d3, err |-> "update"]
              ELSE [db |-> [d3 EXCEPT !.rows = BackfillModule(@)], err |-> "none"]

\* migrateMigrationsTable on db = [exists, cols, rows]; each statement commits
\* on its own, so an error leaves the statements before it in place
migrateMigrationsTable(db, fault) ==
    IF fault = "check_column" THEN [db |-> db, err |-> "check_column"]
    ELSE IF "module" \in db.cols THEN [db |-> db, err |-> "none"]
    ELSE IF fault = "add_module" THEN [db |-> db, err |-> "add_module"]
    ELSE LET d2 == [db EXCEPT !.cols = @ \cup {"module"}] IN
         IF fault = "add_file_path" \/ "file_path" \in d2.cols
         THEN [db |-> d2, err |-> "add_file_path"]
         ELSE LET d3 == [d2 EXCEPT !.cols = @ \cup {"file_path"}] IN
              IF fault = "update" THEN [db |-> d3, err |-> "update"]
              ELSE [db |-> [d3 EXCEPT !.rows = BackfillModule(@)], err |-> "none"]

\* createMigrationsTable: CREATE TABLE IF NOT EXISTS, then the structure upgrade
createMigrationsTable(db, fault) ==
    IF fault = "create" THEN [db |-> db, err |-> "create"]
    ELSE migrateMigrationsTable(
             IF db.exists THEN db ELSE [exists |-> TRUE, cols |-> AllCols, rows |-> {}],
             fault)

(***************************************************************************)
(* Discovery and ordering.                                                 *)
(***************************************************************************)
Perms(S) ==
    {q \in [1..Cardinality(S) -> S] : \A i, j \in 1..Cardinality(S) : q[i] = q[j] => i = j}

\* variant: the comparison reversed
VersionGreater(mi, mj) == Atoi(mi.Version).val > Atoi(mj.Version).val

\* the less function of the sort.Slice call in RunMigrations
VersionLess(mi, mj) == Atoi(mi.Version).val < Atoi(mj.Version).val

IsSorted(q) == \A i, j \in 1..Len(q) : i < j => ~VersionLess(q[j], q[i])

\* variant: the slice left in the order of the walk
SortByVersionNone(migrations) == {migrations}

\* what sort.Slice may leave: the orderings of the same elements in which no
\* element is less than one before it (the sort is not stable)
SortByVersion(migrations) ==
    {q \in {[i \in 1..Len(migrations) |-> migrations[p[i]]] : p \in Perms(1..Len(migrations))} :
        IsSorted(q)}

\* variant: a file that does not parse is passed over
RECURSIVE loadMigrationsSkipBad(_, _, _, _)
loadMigrationsSkipBad(onDisk, edited, walk, migrations) ==
    IF walk = <<>> THEN [err |-> "none", file |-> NoPath, migrations |-> migrations]
    ELSE IF ~HasSuffix(Head(walk).name, DotSql)
             \/ parseMigrationFile(onDisk, edited, Head(walk)).err # "none"
    THEN loadMigrationsSkipBad(onDisk, edited, Tail(walk), migrations)
    ELSE loadMigrationsSkipBad(onDisk, edited, Tail(walk),
                               Append(migrations, parseMigrationFile(onDisk, edited, Head(walk)).m))

\* loadMigrationsFromFiles for a walk that visits the files in the given order:
\* files without the .sql suffix are passed over, the first file that does not
\* parse ends the walk with its error
RECURSIVE loadMigrationsFromFiles(_, _, _, _)
loadMigrationsFromFiles(onDisk, edited, walk, migrations) ==
    IF walk = <<>> THEN [err |-> "none", file |-> NoPath, migrations |-> migrations]
    ELSE IF ~HasSuffix(Head(walk).name, DotSql)
    THEN loadMigrationsFromFiles(onDisk, edited, Tail(walk), migrations)
    ELSE LET r == parseMigrationFile(onDisk, edited, Head(walk)) IN
         IF r.err # "none" THEN [err |-> r.err, file |-> Head(walk), migrations |-> <<>>]
         ELSE loadMigrationsFromFiles(onDisk, edited, Tail(walk), Append(migrations, r.m))

\* RunMigrations from the load to the sort, for each walk order: the error of
\* the load and the file it names, whether the walk came unsorted, and the
\* migrations as sorted
Discover(onDisk, edited) ==
    UNION {LET l == loadMigrationsFromFiles(onDisk, edited, walk, <<>>) IN
           {[err |-> l.err, file |-> l.file, unsorted |-> ~IsSorted(l.migrations), sorted |-> q] :
               q \in SortByVersion(l.migrations)} : walk \in Perms(onDisk)}

\* each corpus is worked out once
Discoveries ==
    UNION {{<<onDisk, edited, Discover(onDisk, edited)>> :
               edited \in SUBSET (onDisk \cap Editable)} :
           onDisk \in (SUBSET AllPaths) \cup IrregularCorpora}

Discovered(onDisk, edited) ==
    (CHOOSE e \in Discoveries : e[1] = onDisk /\ e[2] = edited)[3]

(***************************************************************************)
(* History records (they only observe; no guard reads them).               *)
(***************************************************************************)
NoRow ==
    [version |-> <<>>, description |-> <<>>, module |-> Null, file_path |-> Null,
     executed_at |-> 0 - 1]

\* run: the RunMigrations call in progress or just returned
\*   corpus       files on disk when it started
\*   startLedger  ledger rows when it started
\*   prev         the operation completed just before it: "ok" a RunMigrations
\*                that returned nil, "failed" one that returned an error from
\*                executeMigration, "other" anything else
\*   unsorted     the walk delivered the scripts in an order that is not sorted
\*   visited      versions handed to executeMigration, in order
\*   sent         versions whose UP SQL was sent to the database (tx.Exec)
\*   applied      versions whose transaction committed
\*   lastApplied  the migration committed latest, preApply the ledger rows before it
\*   failed       the version named by the error RunMigrations returned
NoRun ==
    [corpus |-> {}, startLedger |-> {}, prev |-> "other",
     unsorted |-> FALSE, visited |-> <<>>, sent |-> <<>>, applied |-> <<>>,
     lastApplied |-> NoMigration, preApply |-> {}, failed |-> <<>>]

\* last: the operation that completed most recently
\*   op        "init", "up" (RunMigrations), "down" (Rollback), "fs" (a file
\*             change), or "running" while RunMigrations is in its loop
\*   err       its error ("none" on success)
\*   file      the script file the error of a RunMigrations names
\*   fault     the failure the environment injected into a Rollback
\*   before    ledger rows when a Rollback started
\*   target    the row Rollback selected
\*   read, tx  Rollback read a script file / opened a transaction
\*   sql       the SQL bodies Rollback sent to the database
\*   applied   for a Rollback directly after a RunMigrations that committed a
\*             migration: that migration, and preApply the ledger before it
NoLast ==
    [op |-> "init", err |-> "none", file |-> NoPath, fault |-> "none", before |-> {},
     target |-> NoRow, read |-> FALSE, tx |-> FALSE, sql |-> <<>>,
     applied |-> NoMigration, preApply |-> {}]

Blank(sql) == TrimSpace(sql) = <<>>

(***************************************************************************)
(* executeMigration and Rollback as functions of the database state and    *)
(* of the failure injected by the environment.  The database state a       *)
(* transaction sees is [rows, effects]: the ledger rows and the versions   *)
(* whose UP effects are in place.                                          *)
(***************************************************************************)
txAbortKeepEffects(before, work) == [rows |-> before.rows, effects |-> work.effects]

txAbortKeepRows(before, work) == [rows |-> work.rows, effects |-> before.effects]

txAbortKeepAll(before, work) == work

\* defer tx.Rollback(): a transaction that returns before its Commit succeeded
\* leaves nothing of its work
txAbort(before, work) == before

\* the transaction of executeMigration: [err, sent, db]
applyInTx(rows, effects, colset, m, at, fault) ==
    LET before == [rows |-> rows, effects |-> effects]
        sends  == ~Blank(m.UpSQL)
        work1  == [rows |-> rows, effects |-> IF sends THEN effects \cup {m.Version} ELSE effects]
        work2  == [work1 EXCEPT !.rows = @ \cup {NewRow(m, at)}]
    IN  IF fault = "begin" THEN [err |-> "begin", sent |-> FALSE, db |-> before]
        ELSE IF sends /\ fault = "exec"
        THEN [err |-> "exec", sent |-> TRUE, db |-> txAbort(before, before)]
        \* the INSERT fails on a missing column and on the primary key
        ELSE IF fault = "record" \/ colset # AllCols \/ CountVersion(rows, m.Version) > 0
        THEN [err |-> "record", sent |-> sends, db |-> txAbort(before, work1)]
        ELSE IF fault = "commit"
        THEN [err |-> "commit", sent |-> sends, db |-> txAbort(before, work2)]
        ELSE [err |-> "none", sent |-> sends, db |-> work2]

executeMigrationNoSkip(rows, effects, colset, m, at, fault) ==
    IF fault = "status"
    THEN [err |-> "status", skipped |-> FALSE, sent |-> FALSE,
          db |-> [rows |-> rows, effects |-> effects]]
    ELSE [skipped |-> FALSE] @@ applyInTx(rows, effects, colset, m, at, fault)

\* variant: a version is also skipped when the ledger holds a higher one
executeMigrationSkipBelowMax(rows, effects, colset, m, at, fault) ==
    IF fault = "status"
    THEN [err |-> "status", skipped |-> FALSE, sent |-> FALSE,
          db |-> [rows |-> rows, effects |-> effects]]
    ELSE IF \E r \in rows : Atoi(m.Version).val <= Atoi(r.version).val
    THEN [err |-> "none", skipped |-> TRUE, sent |-> FALSE,
          db |-> [rows |-> rows, effects |-> effects]]
    ELSE [skipped |-> FALSE] @@ applyInTx(rows, effects, colset, m, at, fault)

\* executeMigration(m) at database time at: [err, skipped, sent, db]
executeMigration(rows, effects, colset, m, at, fault) ==
    IF fault = "status"
    THEN [err |-> "status", skipped |-> FALSE, sent |-> FALSE,
          db |-> [rows |-> rows, effects |-> effects]]
    ELSE IF CountVersion(rows, m.Version) > 0
    THEN [err |-> "none", skipped |-> TRUE, sent |-> FALSE,
          db |-> [rows |-> rows, effects |-> effects]]
    ELSE [skipped |-> FALSE] @@ applyInTx(rows, effects, colset, m, at, fault)

RunLoopContinue(q, err) == [pc |-> "running", queue |-> Tail(q)]

\* the loop of RunMigrations after executeMigration returned err: the first
\* error ends the run
RunLoopNext(q, err) ==
    IF err # "none" THEN [pc |-> "idle", queue |-> <<>>]
    ELSE [pc |-> "running", queue |-> Tail(q)]

\* the SELECT of Rollback and its Scan, r being the row the query yields:
\* "error", "no_rows" (sql.ErrNoRows) or "row"
selectLatest(exists, colset, rows, r, fault) ==
    IF fault = "get_last" \/ ~exists \/ colset # AllCols THEN "error"
    ELSE IF rows = {} THEN "no_rows"
    \* Scan of a NULL column into a Go string is an error
    ELSE IF r.module = Null \/ r.file_path = Null THEN "error"
    ELSE "row"

RollbackOut(err, read, tx, sql, db) ==
    [err |-> err, read |-> read, tx |-> tx, sql |-> sql, db |-> db]

\* variant: a script without reverse SQL is an error
rollbackRowNeedsDown(rows, effects, onDisk, edited, r, fault) ==
    LET before == [rows |-> rows, effects |-> effects]
        p      == parseMigrationFile(onDisk, edited, r.file_path[1])
    IN  IF p.err # "none" \/ Blank(p.m.DownSQL)
        THEN RollbackOut("parse", TRUE, FALSE, <<>>, before)
        ELSE RollbackOut("none", TRUE, TRUE, <<p.m.DownSQL>>,
                         [rows |-> {s \in rows : s.version # r.version},
                          effects |-> effects \ {r.version}])

\* Rollback from the re-parse of the script of row r on
rollbackRow(rows, effects, onDisk, edited, r, fault) ==
    LET before == [rows |-> rows, effects |-> effects]
        p      == parseMigrationFile(onDisk, edited, r.file_path[1])
        sends  == ~Blank(p.m.DownSQL)
        sql    == IF sends THEN <<p.m.DownSQL>> ELSE <<>>
        work1  == [rows |-> rows, effects |-> IF sends THEN effects \ {r.version} ELSE effects]
        work2  == [work1 EXCEPT !.rows = {s \in rows : s.version # r.version}]
    IN  IF p.err # "none" THEN RollbackOut("parse", TRUE, FALSE, <<>>, before)
        ELSE IF fault = "begin" THEN RollbackOut("begin", TRUE, FALSE, <<>>, before)
        ELSE IF sends /\ fault = "exec"
        THEN RollbackOut("exec", TRUE, TRUE, sql, txAbort(before, before))
        ELSE IF fault = "remove"
        THEN RollbackOut("remove", TRUE, TRUE, sql, txAbort(before, work1))
        ELSE IF fault = "commit"
        THEN RollbackOut("commit", TRUE, TRUE, sql, txAbort(before, work2))
        ELSE RollbackOut("none", TRUE, TRUE, sql, work2)

\* Rollback, r being the row its SELECT yields: [err, read, tx, sql, db]
RollbackOp(exists, colset, rows, effects, onDisk, edited, r, fault) ==
    LET q == selectLatest(exists, colset, rows, r, fault) IN
    IF q = "no_rows"
    THEN RollbackOut("none", FALSE, FALSE, <<>>, [rows |-> rows, effects |-> effects])
    ELSE IF q = "error"
    THEN RollbackOut("get_last", FALSE, FALSE, <<>>, [rows |-> rows, effects |-> effects])
    ELSE rollbackRow(rows, effects, onDisk, edited, r, fault)

(***************************************************************************)
(* The reset action of the migrate command (resetDatabase): the check of   *)
(* the environment, two prompts read with fmt.Scanln, DROP SCHEMA for the  *)
(* two module schemas, DROP TABLE for the ledger, then RunMigrations.      *)
(***************************************************************************)
IsSpaceRune(c) == c \in {" ", "\t", "\r"}

\* the input from its first rune that is not a space on
RECURSIVE SkipSpaces(_)
SkipSpaces(in) ==
    IF in # <<>> /\ IsSpaceRune(Head(in)) THEN SkipSpaces(Tail(in)) ELSE in

\* the length of the token the input starts with
RECURSIVE TokenLen(_)
TokenLen(in) ==
    IF in = <<>> \/ IsSpaceRune(Head(in)) \/ Head(in) = "\n" THEN 0
    ELSE 1 + TokenLen(Tail(in))

\* fmt.Scanln(&response) on the input left on stdin, response holding old:
\* leading spaces are passed, a newline or the end of the input there is an
\* error that leaves response as it was; else the token is stored, and after
\* it only spaces may come before the newline: the first other rune is read
\* and is the error "expected newline", the runes after it staying on stdin
Scanln(in, old) ==
    LET s1 == SkipSpaces(in) IN
    IF s1 = <<>> THEN [val |-> old, rest |-> <<>>, err |-> "unexpected EOF"]
    ELSE IF Head(s1) = "\n"
    THEN [val |-> old, rest |-> Tail(s1), err |-> "unexpected newline"]
    ELSE LET n  == TokenLen(s1)
             s3 == SkipSpaces(SubSeq(s1, n + 1, Len(s1)))
         IN  IF s3 = <<>> THEN [val |-> SubSeq(s1, 1, n), rest |-> <<>>, err |-> "none"]
             ELSE IF Head(s3) = "\n"
             THEN [val |-> SubSeq(s1, 1, n), rest |-> Tail(s3), err |-> "none"]
             ELSE [val |-> SubSeq(s1, 1, n), rest |-> Tail(s3), err |-> "expected newline"]

RESET == <<"R", "E", "S", "E", "T">>
YES == <<"Y", "E", "S">>

\* what the operator types, or has piped, into the command
Typed ==
    {RESET \o NL \o YES \o NL,
     RESET \o NL \o <<"N", "O">> \o NL,
     <<"r", "e", "s", "e", "t">> \o NL \o YES \o NL,
     YES \o NL \o RESET \o NL,
     RESET \o NL \o NL,
     RESET \o NL,
     NL,
     RESET \o <<" ">> \o YES \o NL,
     RESET \o <<" ", "x">> \o YES \o NL}

\* cfg.App.Environment
Environments == {"production", "development", "Production"}

\* the schemas resetDatabase drops, in its order
ResetSchemas == <<"user_management", "sensor_data">>

\* the UP effects left when the schema of a module directory is dropped
DropSchema(effects, name) ==
    effects \ {parseFile(p, FileContent(p)).m.Version : p \in {x \in AllPaths : x.dir = name}}

ResetOut(err, prompts, stdin, db, dropped, rerun) ==
    [err |-> err, prompts |-> prompts, stdin |-> stdin, db |-> db, dropped |-> dropped,
     rerun |-> rerun]

\* resetDatabase after the check of the environment, on db = [exists, rows,
\* effects]; each DROP commits on its own
resetConfirm(typed, db, fault) ==
    LET a1 == Scanln(typed, <<>>)
        a2 == Scanln(a1.rest, a1.val)
        d1 == [db EXCEPT !.effects = DropSchema(@, ResetSchemas[1])]
        d2 == [d1 EXCEPT !.effects = DropSchema(@, ResetSchemas[2])]
        d3 == [d2 EXCEPT !.exists = FALSE, !.rows = {}]
    IN  IF a1.val # RESET THEN ResetOut("none", 1, a1.rest, db, {}, FALSE)
        ELSE IF a2.val # YES THEN ResetOut("none", 2, a2.rest, db, {}, FALSE)
        ELSE IF fault = "drop_first"
        THEN ResetOut("drop_schema", 2, a2.rest, db, {}, FALSE)
        ELSE IF fault = "drop_second"
        THEN ResetOut("drop_schema", 2, a2.rest, d1, {ResetSchemas[1]}, FALSE)
        ELSE IF fault = "drop_table"
        THEN ResetOut("drop_table", 2, a2.rest, d2, {ResetSchemas[1], ResetSchemas[2]}, FALSE)
        ELSE ResetOut("none", 2, a2.rest, d3,
                      {ResetSchemas[1], ResetSchemas[2], "migrations"}, TRUE)

\* variant: no environment is refused
resetDatabaseAnyEnv(env, typed, db, fault) == resetConfirm(typed, db, fault)

\* resetDatabase up to its call of RunMigrations
resetDatabase(env, typed, db, fault) ==
    IF env = "production" THEN ResetOut("production", 0, typed, db, {}, FALSE)
    ELSE resetConfirm(typed, db, fault)

\* cli: the reset command
\*   pc       "off" not started, "rerun" inside its RunMigrations, "done"
\*   env      the configured environment, typed what was on stdin at the start
\*   stdin    what is left on stdin, prompts how many prompts were printed
\*   dropped  the schemas and the table it dropped
\*   err      the error resetDatabase returned ("none" for nil)
\*   before   the database when the command started
NoCli ==
    [pc |-> "off", env |-> "", typed |-> <<>>, stdin |-> <<>>, prompts |-> 0,
     dropped |-> {}, err |-> "none",
     before |-> [exists |-> FALSE, rows |-> {}, effects |-> {}]]

(***************************************************************************)
(* The API process (main): load the configuration, connect, RunMigrations, *)
(* the services, the MQTT broker, the HTTP server in a goroutine, then     *)
(* wait for a signal.                                                      *)
(***************************************************************************)
\* api: the API process
\*   pc       where main is: "boot", "migrate" (about to call RunMigrations),
\*            "migrating" (inside it), "services", "mqtt", "http", "waiting"
\*            (for a signal), "exited"
\*   calls    how many times it called RunMigrations
\*   result   what RunMigrations returned to it ("" before, "none" for nil)
\*   started  the components started, in order
\*   http     the goroutine of the HTTP server: "none", "spawned", "serving",
\*            "closed"
\*   exit     why the process exited
NoApi ==
    [pc |-> "boot", calls |-> 0, result |-> "", started |-> <<>>, http |-> "none",
     exit |-> ""]

\* variant: main carries on whatever RunMigrations returned
afterMigrationsCarryOn(a, err) ==
    [a EXCEPT !.pc = "services", !.result = err]

\* main at the return of db.RunMigrations: log.Fatalf on an error
afterMigrations(a, err) ==
    IF err # "none" THEN [a EXCEPT !.pc = "exited", !.result = err, !.exit = "migrations"]
    ELSE [a EXCEPT !.pc = "services", !.result = err]

(***************************************************************************)
(* splitMigrationContent on its own: contents of up to MaxSplitLines lines *)
(* drawn from marker lines in several spellings and lines of SQL.          *)
(***************************************************************************)
MaxSplitLines == 3

DownMarkerPadded == <<" ">> \o DownMarker \o <<" ">>
DownMarkerLower == <<"-", "-", " ", "d", "o", "w", "n">>
UpMarkerLower == <<"-", "-", " ", "u", "p">>

SplitLineKinds ==
    {UpMarker, DownMarker, DownMarkerPadded, DownMarkerLower, UpMarkerLower,
     <<"A">>, <<"b">>, <<>>}

\* the contents of n lines
RECURSIVE ContentsOf(_)
ContentsOf(n) ==
    IF n = 1 THEN SplitLineKinds
    ELSE {l \o NL \o c : l \in SplitLineKinds, c \in ContentsOf(n - 1)}

SplitContents == UNION {ContentsOf(n) : n \in 1..MaxSplitLines}

\* probe: content is the string given, up and down the two strings returned
NoProbe == [content |-> <<>>, up |-> <<>>, down |-> <<>>, done |-> FALSE]

(***************************************************************************)
(* Two processes in RunMigrations against one database.  Each statement of *)
(* executeMigration is a step: the COUNT on the connection pool, Begin,    *)
(* the UP SQL, the INSERT and the Commit.  A transaction's work is private *)
(* until its Commit.                                                       *)
(***************************************************************************)
Runners == {1, 2}

OtherRunner(r) == 3 - r

\* race[r]: one process
\*   pc         "idle", "check", "begin", "exec", "insert", "commit", "done"
\*   queue      the migrations its loop has still to visit
\*   tx         the uncommitted work of its open transaction
\*   err        the error its RunMigrations returned ("none" while it runs)
\*   passed     the versions whose COUNT it found 0
\*   executed   the versions whose UP SQL it sent
\*   committed  the versions whose transaction it committed
NoTx == [rows |-> {}, effects |-> {}]

NoRunner ==
    [pc |-> "idle", queue |-> <<>>, tx |-> NoTx, err |-> "none", passed |-> {},
     executed |-> {}, committed |-> {}]

NoRace == [r \in Runners |-> NoRunner]

\* variant: the COUNT also sees the version while another transaction works on it
passesCheckLocked(rows, other, version) ==
    /\ CountVersion(rows, version) = 0
    /\ ~(other.pc \in {"begin", "exec", "insert", "commit"} /\ other.queue # <<>>
            /\ Head(other.queue).Version = version)

\* the "already applied" test of executeMigration: the COUNT is read on the
\* pool and sees committed rows only
passesCheck(rows, other, version) == CountVersion(rows, version) = 0

\* variant: the table has no primary key
insertOutcomeNoKey(rows, other, version) == "ok"

\* the INSERT against PRIMARY KEY (version): "conflict" with a committed row,
\* "wait" behind the uncommitted row of the other transaction, else "ok"
insertOutcome(rows, other, version) ==
    IF CountVersion(rows, version) > 0 THEN "conflict"
    ELSE IF version \in Versions(other.tx.rows) THEN "wait"
    ELSE "ok"

\* the loop after executeMigration returned nil
RaceAdvance(me) ==
    [me EXCEPT !.queue = Tail(@), !.tx = NoTx,
               !.pc = IF Len(me.queue) = 1 THEN "done" ELSE "check"]

\* executeMigration returned an error: defer tx.Rollback(), the run ends
RaceAbort(me, err) == [me EXCEPT !.pc = "done", !.queue = <<>>, !.tx = NoTx, !.err = err]

(***************************************************************************)
(* CreateMigrationFile and getNextVersion.                                 *)
(***************************************************************************)
DigitRune(d) ==
    CASE d = 0 -> "0" [] d = 1 -> "1" [] d = 2 -> "2" [] d = 3 -> "3" [] d = 4 -> "4"
      [] d = 5 -> "5" [] d = 6 -> "6" [] d = 7 -> "7" [] d = 8 -> "8" [] OTHER -> "9"

\* the decimal digits of n >= 0
RECURSIVE Itoa(_)
Itoa(n) == IF n < 10 THEN <<DigitRune(n)>> ELSE Itoa(n \div 10) \o <<DigitRune(n % 10)>>

\* fmt.Sprintf("%03d", n) for n >= 0
Sprintf03d(n) ==
    LET d == Itoa(n) IN
    IF Len(d) >= 3 THEN d ELSE [i \in 1..(3 - Len(d)) |-> "0"] \o d

\* getNextVersion: SELECT COALESCE(MAX(CAST(version AS INTEGER)), 0) + 1 over
\* the ledger; the query fails without the table and on a version that is
\* not an integer
getNextVersion(exists, rows) ==
    LET nums == {Atoi(r.version).val : r \in rows} IN
    IF ~exists \/ \E r \in rows : ~Atoi(r.version).ok THEN [err |-> "max_version", next |-> 0]
    ELSE [err |-> "none",
          next |-> 1 + (IF nums = {} THEN 0 ELSE CHOOSE n \in nums : \A k \in nums : k <= n)]

\* the path CreateMigrationFile writes for a version
NewFilePath(module, description, next) ==
    [dir |-> module,
     name |-> Sprintf03d(next) \o <<"_">> \o ReplaceAll(description, " ", "_") \o DotSql]

\* the arguments of CreateMigrationFile
NewModules == {"user_management", "sensor_data"}
NewDescriptions == {<<"b">>, <<"c", " ", "d">>, <<"n", "e", "w">>}

\* created: pc "off" or "done"; err the error returned; path and version of
\* the file written; before the corpus when CreateMigrationFile was called
NoCreated == [pc |-> "off", err |-> "none", path |-> NoPath, version |-> 0, before |-> {}]

(***************************************************************************)
(* Initial states: any corpus; a database that never saw the engine, or    *)
(* one whose ledger table is still in the old format and records the       *)
(* lowest versions of the corpus.                                          *)
(***************************************************************************)
InitFrom(corpora) ==
    /\ files \in corpora
    /\ stripped = {}
    /\ \E d \in Discovered(files, {}), k \in 0..MaxLegacyRows :
          LET q == d.sorted IN
             /\ k <= Len(q)
             /\ tableExists \in (IF k = 0 THEN BOOLEAN ELSE {TRUE})
             /\ cols = {}
             /\ ledger = {LegacyRow(q[i], i - 1) : i \in 1..k}
             /\ schema = {q[i].Version : i \in {j \in 1..k : ~Blank(q[j].UpSQL)}}
             /\ now = k
    /\ pc = "idle"
    /\ queue = <<>>
    /\ run = NoRun
    /\ last = NoLast
    /\ fsChanges = 0
    /\ cli = NoCli
    /\ api = NoApi
    /\ probe = NoProbe
    /\ race = NoRace
    /\ created = NoCreated

Init == InitFrom(SUBSET AllPaths)

\* the same databases with an irregular corpus on disk
InitIrregular == InitFrom(IrregularCorpora)

(***************************************************************************)
(* RunMigrations: ensure the ledger table, load, sort, then the loop.      *)
(***************************************************************************)
StartFaults == {"none", "create", "check_column", "add_module", "add_file_path", "update", "walk"}
ExecFaults == {"none", "status", "begin", "exec", "record", "commit"}
RollbackFaults == {"none", "get_last", "begin", "exec", "remove", "commit"}

\* RunMigrations up to the loop.  WalkDir visits the files in lexical path
\* order; how that order relates to the versions depends on the names of the
\* directories and files, so the walk may deliver any order.
RunBegin ==
    /\ pc = "idle"
    /\ \E fault \in StartFaults, d \in Discovered(files, stripped) :
          LET t    == createMigrationsTable(
                          [exists |-> tableExists, cols |-> cols, rows |-> ledger], fault)
              err  == IF t.err # "none" THEN t.err
                      ELSE IF fault = "walk" THEN "walk" ELSE d.err
              hist == [NoRun EXCEPT !.corpus = files, !.startLedger = ledger,
                                    !.prev = IF last.op # "up" THEN "other"
                                             ELSE IF last.err = "none" THEN "ok"
                                             ELSE IF run.failed # <<>> THEN "failed"
                                             ELSE "other"]
          IN  /\ tableExists' = t.db.exists
              /\ cols' = t.db.cols
              /\ ledger' = t.db.rows
              /\ IF err # "none"
                 THEN /\ pc' = "idle"
                      /\ queue' = <<>>
                      /\ run' = hist
                      /\ last' = [NoLast EXCEPT !.op = "up", !.err = err,
                                                !.file = IF err = d.err THEN d.file ELSE NoPath]
                 ELSE /\ pc' = "running"
                      /\ queue' = d.sorted
                      /\ run' = [hist EXCEPT !.unsorted = d.unsorted]
                      /\ last' = [NoLast EXCEPT !.op = "running"]
    /\ UNCHANGED <<files, stripped, schema, now, fsChanges>>

RunStart == RunBegin /\ UNCHANGED <<cli, api, tools>>

\* one turn of the loop: executeMigration on the next migration
ExecuteMigration ==
    /\ pc = "running"
    /\ queue # <<>>
    /\ \E fault \in ExecFaults :
          LET m    == Head(queue)
              r    == executeMigration(ledger, schema, cols, m, now, fault)
              nxt  == RunLoopNext(queue, r.err)
              hist == [run EXCEPT !.visited = Append(@, m.Version),
                                  !.sent = IF r.sent THEN Append(@, m.Version) ELSE @]
          IN  /\ ledger' = r.db.rows
              /\ schema' = r.db.effects
              /\ pc' = nxt.pc
              /\ queue' = nxt.queue
              /\ IF r.err # "none"
                 THEN /\ now' = now
                      /\ run' = [hist EXCEPT !.failed = m.Version]
                      /\ last' = [NoLast EXCEPT !.op = "up", !.err = r.err]
                 ELSE IF r.skipped
                 THEN /\ run' = hist
                      /\ UNCHANGED <<now, last>>
                 ELSE /\ now < MaxClock
                      /\ now' = now + 1
                      /\ run' = [hist EXCEPT !.applied = Append(@, m.Version),
                                             !.lastApplied = m, !.preApply = ledger]
                      /\ UNCHANGED last
    /\ UNCHANGED <<files, stripped, tableExists, cols, fsChanges>>
    /\ UNCHANGED <<cli, api, tools>>

\* the loop is through: RunMigrations returns nil
RunFinish ==
    /\ pc = "running"
    /\ queue = <<>>
    /\ pc' = "idle"
    /\ last' = [NoLast EXCEPT !.op = "up"]
    /\ UNCHANGED <<files, stripped, tableExists, cols, ledger, schema, now, queue, run,
                   fsChanges>>
    /\ UNCHANGED <<cli, api, tools>>

(***************************************************************************)
(* Rollback, called between runs.                                          *)
(***************************************************************************)
Rollback ==
    /\ pc = "idle"
    /\ \E fault \in RollbackFaults,
          r \in (IF ledger = {} THEN {NoRow} ELSE LatestRows(ledger)) :
          LET o == RollbackOp(tableExists, cols, ledger, schema, files, stripped, r, fault)
              afterApply == last.op = "up" /\ run.applied # <<>>
          IN  /\ ledger' = o.db.rows
              /\ schema' = o.db.effects
              /\ last' = [op |-> "down", err |-> o.err, file |-> NoPath, fault |-> fault,
                          before |-> ledger, target |-> r, read |-> o.read, tx |-> o.tx,
                          sql |-> o.sql,
                          applied |-> IF afterApply THEN run.lastApplied ELSE NoMigration,
                          preApply |-> IF afterApply THEN run.preApply ELSE {}]
    /\ run' = NoRun
    /\ UNCHANGED <<files, stripped, tableExists, cols, now, pc, queue, fsChanges>>
    /\ UNCHANGED <<cli, api, tools>>

(***************************************************************************)
(* The developer adds a script to the corpus, removes one or edits one,    *)
(* between runs.                                                           *)
(***************************************************************************)
AddFile ==
    /\ pc = "idle"
    /\ fsChanges < MaxFsChanges
    /\ \E p \in AllPaths \ files : files' = files \cup {p}
    /\ fsChanges' = fsChanges + 1
    /\ run' = NoRun
    /\ last' = [NoLast EXCEPT !.op = "fs"]
    /\ UNCHANGED <<stripped, tableExists, cols, ledger, schema, now, pc, queue>>
    /\ UNCHANGED <<cli, api, tools>>

RemoveFile ==
    /\ pc = "idle"
    /\ fsChanges < MaxFsChanges
    /\ \E p \in files : files' = files \ {p} /\ stripped' = stripped \ {p}
    /\ fsChanges' = fsChanges + 1
    /\ run' = NoRun
    /\ last' = [NoLast EXCEPT !.op = "fs"]
    /\ UNCHANGED <<tableExists, cols, ledger, schema, now, pc, queue>>
    /\ UNCHANGED <<cli, api, tools>>

\* the developer deletes the DOWN marker of a script and what follows it
EditFile ==
    /\ pc = "idle"
    /\ fsChanges < MaxFsChanges
    /\ \E p \in (files \cap Editable) \ stripped : stripped' = stripped \cup {p}
    /\ fsChanges' = fsChanges + 1
    /\ run' = NoRun
    /\ last' = [NoLast EXCEPT !.op = "fs"]
    /\ UNCHANGED <<files, tableExists, cols, ledger, schema, now, pc, queue>>
    /\ UNCHANGED <<cli, api, tools>>

Next == RunStart \/ ExecuteMigration \/ RunFinish \/ Rollback \/ AddFile \/ RemoveFile

Spec == Init /\ [][Next]_vars

(***************************************************************************)
(* The migrate command: -action up, then once -action reset.               *)
(***************************************************************************)
ResetFaults == {"none", "drop_first", "drop_second", "drop_table"}

\* -action up
CliUp == cli.pc = "off" /\ RunStart

\* -action reset, up to the call of RunMigrations
Reset ==
    /\ pc = "idle"
    /\ cli.pc = "off"
    /\ \E env \in Environments, typed \in Typed, fault \in ResetFaults :
          LET db == [exists |-> tableExists, rows |-> ledger, effects |-> schema]
              r  == resetDatabase(env, typed, db, fault)
          IN  /\ tableExists' = r.db.exists
              /\ cols' = IF r.db.exists THEN cols ELSE {}
              /\ ledger' = r.db.rows
              /\ schema' = r.db.effects
              /\ cli' = [pc |-> IF r.rerun THEN "rerun" ELSE "done", env |-> env,
                         typed |-> typed, stdin |-> r.stdin, prompts |-> r.prompts,
                         dropped |-> r.dropped, err |-> r.err, before |-> db]
    /\ run' = NoRun
    /\ last' = [NoLast EXCEPT !.op = "reset"]
    /\ UNCHANGED <<files, stripped, now, pc, queue, fsChanges, api, tools>>

\* resetDatabase calls RunMigrations
ResetRerun == cli.pc = "rerun" /\ last.op = "reset" /\ RunStart

\* RunMigrations has returned to resetDatabase, which returns
ResetReturn ==
    /\ cli.pc = "rerun"
    /\ pc = "idle" /\ last.op = "up"
    /\ cli' = [cli EXCEPT !.pc = "done",
                          !.err = IF last.err = "none" THEN "none" ELSE "migrate"]
    /\ UNCHANGED <<files, stripped, tableExists, cols, ledger, schema, now, pc, queue, run,
                   last, fsChanges, api, tools>>

NextReset == CliUp \/ ExecuteMigration \/ RunFinish \/ Reset \/ ResetRerun \/ ResetReturn

SpecReset == Init /\ [][NextReset]_vars

(***************************************************************************)
(* The API process.                                                        *)
(***************************************************************************)
ApiUnchangedDb ==
    UNCHANGED <<files, stripped, tableExists, cols, ledger, schema, now, pc, queue, run,
                last, fsChanges, cli, tools>>

\* config.MustLoad and database.MustConnect: each exits the process on failure
ApiBoot ==
    /\ api.pc = "boot"
    /\ \E fault \in {"none", "config", "connect"} :
          api' = IF fault = "none" THEN [api EXCEPT !.pc = "migrate"]
                 ELSE [api EXCEPT !.pc = "exited", !.exit = fault]
    /\ ApiUnchangedDb

\* db.RunMigrations() is called
ApiRunMigrations ==
    /\ api.pc = "migrate"
    /\ RunBegin
    /\ api' = [api EXCEPT !.pc = "migrating", !.calls = @ + 1]
    /\ UNCHANGED <<cli, tools>>

\* db.RunMigrations() has returned
ApiMigrated ==
    /\ api.pc = "migrating"
    /\ pc = "idle"
    /\ api' = afterMigrations(api, last.err)
    /\ ApiUnchangedDb

\* the repositories and services
ApiServices ==
    /\ api.pc = "services"
    /\ api' = [api EXCEPT !.pc = "mqtt", !.started = Append(@, "services")]
    /\ ApiUnchangedDb

\* mqttBroker.Start(): a failure is logged and main carries on
ApiMqtt ==
    /\ api.pc = "mqtt"
    /\ \E ok \in BOOLEAN :
          api' = [api EXCEPT !.pc = "http",
                             !.started = IF ok THEN Append(@, "mqtt") ELSE @]
    /\ ApiUnchangedDb

\* the goroutine of server.ListenAndServe is spawned, main waits for a signal
ApiSpawnHttp ==
    /\ api.pc = "http"
    /\ api' = [api EXCEPT !.pc = "waiting", !.http = "spawned"]
    /\ ApiUnchangedDb

\* server.ListenAndServe: it serves, or it fails and log.Fatalf exits
ApiListenAndServe ==
    /\ api.pc = "waiting"
    /\ api.http = "spawned"
    /\ \E ok \in BOOLEAN :
          api' = IF ok THEN [api EXCEPT !.http = "serving", !.started = Append(@, "http")]
                 ELSE [api EXCEPT !.pc = "exited", !.exit = "listen"]
    /\ ApiUnchangedDb

\* SIGINT or SIGTERM: server.Shutdown, main returns
ApiSignal ==
    /\ api.pc = "waiting"
    /\ api' = [api EXCEPT !.pc = "exited", !.http = "closed", !.exit = "signal"]
    /\ ApiUnchangedDb

NextApi ==
    \/ ApiBoot \/ ApiRunMigrations \/ ExecuteMigration \/ RunFinish \/ ApiMigrated
    \/ ApiServices \/ ApiMqtt \/ ApiSpawnHttp \/ ApiListenAndServe \/ ApiSignal

SpecApi == Init /\ [][NextApi]_vars

(***************************************************************************)
(* Two concurrent RunMigrations.                                           *)
(***************************************************************************)
RaceUnchanged ==
    UNCHANGED <<files, stripped, pc, queue, run, last, fsChanges, cli, api, probe, created>>

\* RunMigrations up to its loop: the ledger table is ensured, the scripts
\* are loaded and sorted
RaceStart(r) ==
    /\ race[r].pc = "idle"
    /\ \E d \in Discovered(files, stripped) :
          LET t == createMigrationsTable(
                       [exists |-> tableExists, cols |-> cols, rows |-> ledger], "none")
          IN  /\ tableExists' = t.db.exists
              /\ cols' = t.db.cols
              /\ ledger' = t.db.rows
              /\ race' = [race EXCEPT ![r] =
                            IF t.err # "none" \/ d.err # "none"
                            THEN RaceAbort(@, IF t.err # "none" THEN t.err ELSE d.err)
                            ELSE IF d.sorted = <<>> THEN [@ EXCEPT !.pc = "done"]
                            ELSE [@ EXCEPT !.pc = "check", !.queue = d.sorted]]
    /\ UNCHANGED <<schema, now>>
    /\ RaceUnchanged

\* SELECT COUNT(*) ... WHERE version = $1, and the skip
RaceCheck(r) ==
    /\ race[r].pc = "check"
    /\ LET v == Head(race[r].queue).Version IN
       race' = [race EXCEPT ![r] =
                  IF passesCheck(ledger, race[OtherRunner(r)], v)
                  THEN [@ EXCEPT !.pc = "begin", !.passed = @ \cup {v}]
                  ELSE RaceAdvance(@)]
    /\ UNCHANGED <<tableExists, cols, ledger, schema, now>>
    /\ RaceUnchanged

\* m.db.Begin()
RaceBegin(r) ==
    /\ race[r].pc = "begin"
    /\ race' = [race EXCEPT ![r].pc = "exec"]
    /\ UNCHANGED <<tableExists, cols, ledger, schema, now>>
    /\ RaceUnchanged

\* tx.Exec(migration.UpSQL) when it is not blank: it succeeds or it fails
RaceExec(r) ==
    /\ race[r].pc = "exec"
    /\ LET m == Head(race[r].queue) IN
       IF Blank(m.UpSQL) THEN race' = [race EXCEPT ![r].pc = "insert"]
       ELSE \E ok \in BOOLEAN :
              race' = [race EXCEPT ![r] =
                         IF ok THEN [@ EXCEPT !.pc = "insert",
                                              !.executed = @ \cup {m.Version},
                                              !.tx.effects = {m.Version}]
                         ELSE RaceAbort([@ EXCEPT !.executed = @ \cup {m.Version}], "exec")]
    /\ UNCHANGED <<tableExists, cols, ledger, schema, now>>
    /\ RaceUnchanged

\* tx.Exec(INSERT INTO public.migrations ...)
RaceInsert(r) ==
    /\ race[r].pc = "insert"
    /\ LET m == Head(race[r].queue)
           o == insertOutcome(ledger, race[OtherRunner(r)], m.Version)
       IN  /\ o # "wait"
           /\ race' = [race EXCEPT ![r] =
                         IF o = "conflict" \/ cols # AllCols THEN RaceAbort(@, "record")
                         ELSE [@ EXCEPT !.pc = "commit", !.tx.rows = {NewRow(m, now)}]]
    /\ UNCHANGED <<tableExists, cols, ledger, schema, now>>
    /\ RaceUnchanged

\* tx.Commit(): the work of the transaction becomes visible, or it is lost
RaceCommit(r) ==
    /\ race[r].pc = "commit"
    /\ now < MaxClock
    /\ \E ok \in BOOLEAN :
          IF ok
          THEN /\ ledger' = ledger \cup {[x EXCEPT !.executed_at = now] : x \in race[r].tx.rows}
               /\ schema' = schema \cup race[r].tx.effects
               /\ now' = now + 1
               /\ race' = [race EXCEPT ![r] =
                             RaceAdvance([@ EXCEPT !.committed =
                                                      @ \cup Versions(race[r].tx.rows)])]
          ELSE /\ race' = [race EXCEPT ![r] = RaceAbort(@, "commit")]
               /\ UNCHANGED <<ledger, schema, now>>
    /\ UNCHANGED <<tableExists, cols>>
    /\ RaceUnchanged

NextRace ==
    \E r \in Runners :
        \/ RaceStart(r) \/ RaceCheck(r) \/ RaceBegin(r) \/ RaceExec(r) \/ RaceInsert(r)
        \/ RaceCommit(r)

SpecRace == Init /\ [][NextRace]_vars

(***************************************************************************)
(* A developer runs the migrations and then creates a new script.          *)
(***************************************************************************)
\* RunMigrations before the new script is created
RunBeforeCreate == created.pc = "off" /\ RunStart

\* CreateMigrationFile(module, description): os.WriteFile creates the file or
\* replaces the one of that path
CreateMigrationFile ==
    /\ pc = "idle"
    /\ created.pc = "off"
    /\ \E module \in NewModules, description \in NewDescriptions, wrote \in BOOLEAN :
          LET n == getNextVersion(tableExists, ledger)
              p == NewFilePath(module, description, n.next)
          IN  IF n.err # "none"
              THEN /\ created' = [NoCreated EXCEPT !.pc = "done", !.err = n.err, !.before = files]
                   /\ files' = files
              ELSE IF ~wrote
              THEN /\ created' = [NoCreated EXCEPT !.pc = "done", !.err = "write",
                                                   !.version = n.next, !.before = files]
                   /\ files' = files
              ELSE /\ created' = [pc |-> "done", err |-> "none", path |-> p,
                                  version |-> n.next, before |-> files]
                   /\ files' = files \cup {p}
    /\ UNCHANGED <<stripped, tableExists, cols, ledger, schema, now, pc, queue, run, last,
                   fsChanges, cli, api, probe, race>>

NextCreate == RunBeforeCreate \/ ExecuteMigration \/ RunFinish \/ CreateMigrationFile

SpecCreate == Init /\ [][NextCreate]_vars

(***************************************************************************)
(* splitMigrationContent applied to a content.                             *)
(***************************************************************************)
EngineUntouched ==
    UNCHANGED <<files, stripped, tableExists, cols, ledger, schema, now, pc, queue, run,
                last, fsChanges, cli, api>>

InitSplit ==
    /\ files = {}
    /\ stripped = {}
    /\ tableExists = FALSE
    /\ cols = {}
    /\ ledger = {}
    /\ schema = {}
    /\ now = 0
    /\ pc = "idle"
    /\ queue = <<>>
    /\ run = NoRun
    /\ last = NoLast
    /\ fsChanges = 0
    /\ cli = NoCli
    /\ api = NoApi
    /\ probe \in {[NoProbe EXCEPT !.content = c] : c \in SplitContents}
    /\ race = NoRace
    /\ created = NoCreated

SplitContent ==
    /\ ~probe.done
    /\ LET r == splitMigrationContent(probe.content)
       IN  probe' = [probe EXCEPT !.up = r.up, !.down = r.down, !.done = TRUE]
    /\ EngineUntouched
    /\ UNCHANGED <<race, created>>

NextSplit == SplitContent

SpecSplit == InitSplit /\ [][NextSplit]_vars

\* the engine over the irregular corpora, the developer editing scripts
NextIrregular == RunStart \/ ExecuteMigration \/ RunFinish \/ Rollback \/ EditFile

SpecIrregular == InitIrregular /\ [][NextIrregular]_vars

(***************************************************************************)
(* Vocabulary of the properties.                                           *)
(***************************************************************************)
V1 == <<"0", "0", "1">>
V2 == <<"0", "0", "2">>
V3 == <<"0", "0", "3">>

VersionInt(v) == Atoi(v).val

Elems(q) == {q[i] : i \in 1..Len(q)}

StrictlyAscending(q) == \A i, j \in 1..Len(q) : i < j => VersionInt(q[i]) < VersionInt(q[j])

\* the versions of the scripts of a corpus (the name of a script gives its
\* version, whatever its content)
CorpusVersions(onDisk) == {parseMigrationFile(onDisk, {}, p).m.Version : p \in onDisk}

\* every script parses to a numeric version and no two share its value
DistinctNumeric(onDisk) ==
    /\ \A p \in onDisk : /\ parseMigrationFile(onDisk, {}, p).err = "none"
                         /\ Atoi(parseMigrationFile(onDisk, {}, p).m.Version).ok
    /\ \A p, q \in onDisk :
          p # q => VersionInt(parseMigrationFile(onDisk, {}, p).m.Version)
                       # VersionInt(parseMigrationFile(onDisk, {}, q).m.Version)

\* the scripts of a corpus whose forward section is not blank
WithUpSQL(onDisk) ==
    {parseMigrationFile(onDisk, {}, p).m.Version :
        p \in {x \in onDisk : ~Blank(parseMigrationFile(onDisk, {}, x).m.UpSQL)}}

\* RunMigrations has just returned / is the operation run describes
RunReturned == pc = "idle" /\ last.op = "up"
RunCurrent == pc = "running" \/ RunReturned

\* the errors of executeMigration's transaction
ApplyErrs == {"exec", "record", "commit"}

\* Rollback has just returned
AfterRollback == pc = "idle" /\ last.op = "down"

\* no version is in the ledger while a lower-numbered version of the corpus is
\* missing from it
NoUnappliedPredecessor ==
    \A v \in Versions(ledger), u \in CorpusVersions(files) :
        VersionInt(u) < VersionInt(v) => u \in Versions(ledger)

\* the ledger versions are versions of the corpus, with no unapplied predecessor
LedgerIsPrefix ==
    /\ Versions(ledger) \subseteq CorpusVersions(files)
    /\ NoUnappliedPredecessor

\* the versions of the corpus of the run that were not in the ledger when it started
Pending == CorpusVersions(run.corpus) \ Versions(run.startLedger)

(***************************************************************************)
(* C1  Idempotency of apply-all: a RunMigrations that directly follows one *)
(* that returned nil, with no file change and no other operation between   *)
(* them, sends no UP SQL, commits no migration, and leaves the ledger rows *)
(* exactly as the first run left them.                                     *)
(***************************************************************************)
C1_SecondRunIsNoOp ==
    (RunCurrent /\ run.prev = "ok") =>
        /\ run.sent = <<>>
        /\ run.applied = <<>>
        /\ ledger = run.startLedger

C1_Witness ==
    /\ RunReturned /\ last.err = "none" /\ run.prev = "ok"
    /\ Len(run.visited) >= 2
    /\ Versions(ledger) = CorpusVersions(files)

C3_AscendingExecution ==
    DistinctNumeric(run.corpus) =>
        /\ StrictlyAscending(run.visited)
        /\ StrictlyAscending(run.sent)
        /\ StrictlyAscending(run.applied)

C3_Witness ==
    /\ run.unsorted
    /\ run.sent = <<V1, V2>>
    /\ run.applied = <<V1, V2, V3>>

(***************************************************************************)
(* C4  Apply failure is atomic and terminal: the step in which the UP SQL, *)
(* the ledger insert or the commit fails changes neither the ledger rows   *)
(* nor the schema effects, ends the run with an error naming the version   *)
(* that was being applied, and leaves no migration to be attempted.        *)
(***************************************************************************)
C4_ApplyFailureAtomicTerminal ==
    [][(pc = "running" /\ last'.op = "up" /\ last'.err \in ApplyErrs) =>
          /\ ledger' = ledger
          /\ schema' = schema
          /\ run'.failed = Head(queue).Version
          /\ run'.visited = Append(run.visited, Head(queue).Version)
          /\ pc' = "idle"
          /\ queue' = <<>>]_vars

C4_Witness ==
    /\ RunReturned /\ last.err = "record"
    /\ run.applied = <<V1>> /\ run.failed = V2 /\ run.sent = <<V1, V2>>
    /\ run.corpus = AllPaths
    /\ Versions(ledger) = {V1}

(***************************************************************************)
(* C5  Partial progress and retry: when a run fails in the transaction of  *)
(* version v, the ledger afterwards holds what it held before the run and  *)
(* every corpus version below v, and not v; a run that directly follows a  *)
(* failed one and returns nil skips what the ledger held, commits the rest *)
(* in ascending order and ends with every corpus version in the ledger.    *)
(***************************************************************************)
C5_PartialProgressAndRetry ==
    /\ (RunReturned /\ last.err \in ApplyErrs /\ DistinctNumeric(run.corpus)) =>
          /\ Versions(ledger) =
                Versions(run.startLedger)
                    \cup {u \in CorpusVersions(run.corpus) : VersionInt(u) < VersionInt(run.failed)}
          /\ run.failed \notin Versions(ledger)
    /\ (RunReturned /\ last.err = "none" /\ run.prev = "failed"
            /\ DistinctNumeric(run.corpus)) =>
          /\ Elems(run.applied) = Pending
          /\ StrictlyAscending(run.applied)
          /\ CorpusVersions(run.corpus) \subseteq Versions(ledger)

C5_Witness ==
    /\ RunReturned /\ last.err = "none" /\ run.prev = "failed"
    /\ run.corpus = AllPaths
    /\ Versions(run.startLedger) = {V1}
    /\ run.visited = <<V1, V2, V3>>
    /\ run.applied = <<V2, V3>>
    /\ Versions(ledger) = {V1, V2, V3}

(***************************************************************************)
(* C6  Apply-all executes exactly the pending migrations.  As claimed: in  *)
(* a run that returns nil the versions whose UP SQL is executed are the    *)
(* corpus versions absent from the ledger at the start, and the ledger     *)
(* ends as its start united with the corpus.  That fails for a pending     *)
(* script whose UP section is blank: it is committed with no SQL sent.  As *)
(* amended: the committed versions are the pending ones, the versions      *)
(* whose UP SQL is sent are the pending ones with a non-blank UP section,  *)
(* and the ledger ends as its start united with the corpus.                *)
(***************************************************************************)
C6_SentEqualsPending ==
    (RunReturned /\ last.err = "none") =>
        /\ Elems(run.sent) = Pending
        /\ Versions(ledger) = Versions(run.startLedger) \cup CorpusVersions(run.corpus)

C6_CommittedEqualsPending ==
    (RunReturned /\ last.err = "none") =>
        /\ Elems(run.applied) = Pending
        /\ Elems(run.sent) = Pending \cap WithUpSQL(run.corpus)
        /\ Versions(ledger) = Versions(run.startLedger) \cup CorpusVersions(run.corpus)

C6_Witness ==
    /\ RunReturned /\ last.err = "none"
    /\ run.corpus = {Path1, Path2}
    /\ Versions(run.startLedger) = {V1}
    /\ run.sent = <<V2>> /\ run.applied = <<V2>>

(***************************************************************************)
(* C7  Round-trip: a Rollback that returns nil directly after a            *)
(* RunMigrations whose latest commit was a migration with non-blank UP and *)
(* DOWN sections leaves the ledger with the versions it had before that    *)
(* commit.                                                                 *)
(***************************************************************************)
C7_ApplyThenRollback ==
    (AfterRollback /\ last.err = "none" /\ last.applied # NoMigration
        /\ ~Blank(last.applied.UpSQL) /\ ~Blank(last.applied.DownSQL)) =>
        Versions(ledger) = Versions(last.preApply)

C7_Witness ==
    /\ AfterRollback /\ last.err = "none"
    /\ last.applied # NoMigration
    /\ ~Blank(last.applied.UpSQL) /\ ~Blank(last.applied.DownSQL)
    /\ last.preApply # {}
    /\ last.sql # <<>>

(***************************************************************************)
(* C8  Failed rollback leaves the ledger unchanged: a Rollback that        *)
(* returns an error changes neither the ledger rows nor the schema         *)
(* effects, and the row it selected is still in the ledger.                *)
(***************************************************************************)
C8_FailedRollbackChangesNothing ==
    [][(last'.op = "down" /\ last'.err # "none") =>
          /\ ledger' = ledger
          /\ schema' = schema
          /\ (ledger # {} => last'.target \in ledger')]_vars

C8_Witness ==
    /\ AfterRollback /\ last.err = "commit"
    /\ last.tx /\ last.sql # <<>>
    /\ Cardinality(ledger) >= 2
    /\ last.target \in ledger

(***************************************************************************)
(* C9  Rollback targets the most recently executed entry: a Rollback that  *)
(* returns nil on a non-empty ledger removes exactly one row, one whose    *)
(* executed_at no other row exceeds, and leaves every other row as it was. *)
(***************************************************************************)
C9_RemovesLatestExecuted ==
    (AfterRollback /\ last.err = "none" /\ last.before # {}) =>
        \E r \in last.before :
            /\ ledger = last.before \ {r}
            /\ \A s \in last.before : s.executed_at <= r.executed_at

C9_Witness ==
    /\ AfterRollback /\ last.err = "none" /\ last.before # {}
    /\ \E s \in ledger : VersionInt(s.version) > VersionInt(last.target.version)

(***************************************************************************)
(* C10  Rollback on an empty ledger is a successful no-op: with no row in  *)
(* the ledger and no failure of the database connection, Rollback returns  *)
(* nil, reads no script, opens no transaction, sends no SQL and leaves the *)
(* ledger empty.  Rollback does not ensure the ledger table: where the     *)
(* table was never created, or is still in the old format, its SELECT      *)
(* fails and Rollback returns that error.                                  *)
(***************************************************************************)
C10_EmptyLedgerNoOp ==
    (AfterRollback /\ last.before = {} /\ last.fault = "none") =>
        /\ last.err = "none"
        /\ ~last.read /\ ~last.tx /\ last.sql = <<>>
        /\ ledger = {}

\* Rollback as the first operation on a database without the ledger table
C10_Witness ==
    /\ AfterRollback /\ last.before = {} /\ last.fault = "none"
    /\ ~tableExists
    /\ last.err = "get_last"

(***************************************************************************)
(* Vocabulary of the properties about irregular corpora.                   *)
(***************************************************************************)
VAlpha == <<"v", "2">>
V5 == <<"0", "0", "5">>

\* the scripts of a corpus that parse, and those that do not
Parseable(onDisk) == {p \in onDisk : parseMigrationFile(onDisk, {}, p).err = "none"}
Unparseable(onDisk) == onDisk \ Parseable(onDisk)

\* two scripts of the corpus carry the same version
HasCollision(onDisk) ==
    /\ Unparseable(onDisk) = {}
    /\ \E p, q \in onDisk :
          /\ p # q
          /\ parseMigrationFile(onDisk, {}, p).m.Version = parseMigrationFile(onDisk, {}, q).m.Version

\* a script of the corpus has a version token that strconv.Atoi rejects
HasNonNumeric(onDisk) ==
    /\ Unparseable(onDisk) = {}
    /\ \E p \in onDisk : ~Atoi(parseMigrationFile(onDisk, {}, p).m.Version).ok

\* the errors of parseMigrationFile
DiscoveryErrs == {"filename", "read"}

(***************************************************************************)
(* C11  Version collisions are refused: a RunMigrations over a corpus in   *)
(* which two scripts carry the same version returns an error.  The code    *)
(* has no such check: whichever of the two the sort puts first is applied  *)
(* and the other is skipped as already executed, and the run returns nil.  *)
(***************************************************************************)
C11_CollisionRefused ==
    (RunReturned /\ HasCollision(run.corpus)) => last.err # "none"

\* both scripts of version 001 were visited, one was applied, the run succeeded
C11_Witness ==
    /\ RunReturned /\ last.err = "none"
    /\ run.corpus = {Path1, PathDup}
    /\ run.startLedger = {}
    /\ run.visited = <<V1, V1>>
    /\ run.applied = <<V1>>

(***************************************************************************)
(* C12  Non-numeric version is fatal: a RunMigrations over a corpus with a *)
(* script whose version token is not an integer returns an error and       *)
(* executes no migration.  The code drops the error of strconv.Atoi: the   *)
(* version counts as 0 in the sort and the script is applied.              *)
(***************************************************************************)
C12_NonNumericVersionFatal ==
    (RunReturned /\ HasNonNumeric(run.corpus)) =>
        /\ last.err # "none"
        /\ run.sent = <<>>
        /\ run.applied = <<>>

\* the script of version v2 was applied, ahead of 001, and the run succeeded
C12_Witness ==
    /\ RunReturned /\ last.err = "none"
    /\ run.corpus = {Path1, PathAlpha}
    /\ run.applied = <<VAlpha, V1>>
    /\ VAlpha \in Versions(ledger)

(***************************************************************************)
(* C13  Discovery errors abort before any apply: a RunMigrations over a    *)
(* corpus with a .sql file whose name has no "_" separator, or that cannot *)
(* be read, returns an error; when the error is the one of the parse it    *)
(* names such a file of the corpus; no migration is handed to              *)
(* executeMigration, no UP SQL is sent, and the ledger holds the versions  *)
(* it held at the start.                                                   *)
(***************************************************************************)
C13_DiscoveryErrorAborts ==
    (RunCurrent /\ Unparseable(run.corpus) # {}) =>
        /\ pc = "idle"
        /\ last.err # "none"
        /\ (last.err \in DiscoveryErrs <=> last.file # NoPath)
        /\ (last.file # NoPath =>
               /\ last.file \in Unparseable(run.corpus)
               /\ parseMigrationFile(run.corpus, {}, last.file).err = last.err)
        /\ run.visited = <<>> /\ run.sent = <<>> /\ run.applied = <<>>
        /\ Versions(ledger) = Versions(run.startLedger)
        /\ Cardinality(ledger) = Cardinality(run.startLedger)

C13_Witness ==
    /\ RunReturned /\ last.err = "filename" /\ last.file = PathNoSep
    /\ Path1 \in run.corpus
    /\ ledger = {}

(***************************************************************************)
(* C14  Out-of-order slotting: a RunMigrations that returns nil over a     *)
(* corpus holding a script whose version is absent from the ledger and     *)
(* lower than a version the ledger already holds commits that script, in   *)
(* its numeric position among the scripts it commits, and records it with  *)
(* an executed_at later than that of every row the ledger held.            *)
(***************************************************************************)
C14_OutOfOrderSlotting ==
    (RunReturned /\ last.err = "none" /\ DistinctNumeric(run.corpus)) =>
        \A u \in Pending :
            (\E v \in Versions(run.startLedger) : VersionInt(u) < VersionInt(v)) =>
                /\ u \in Elems(run.applied)
                /\ StrictlyAscending(run.applied)
                /\ \E r \in ledger :
                      /\ r.version = u
                      /\ \A t \in run.startLedger : t.executed_at < r.executed_at

\* 002 was in the ledger, 001 was added, and the run committed 001 and then 003
C14_Witness ==
    /\ RunReturned /\ last.err = "none"
    /\ fsChanges > 0
    /\ Versions(run.startLedger) = {V2}
    /\ run.applied = <<V1, V3>>
    /\ Versions(ledger) = {V1, V2, V3}

\* the scripts of the universe without a DOWN marker line
NoDownScripts == {Path3, PathNoDown}

(***************************************************************************)
(* C15  Script without a DOWN marker: it parses without error, all its     *)
(* lines that are not markers are forward content and the reverse section  *)
(* is empty; a Rollback that selects its ledger row and meets no database  *)
(* failure opens its transaction, sends no SQL, deletes that row and no    *)
(* other, and returns nil.                                                 *)
(***************************************************************************)
C15_NoDownMarker ==
    /\ \A p \in NoDownScripts :
          /\ parseFile(p, FileContent(p)).err = "none"
          /\ parseFile(p, FileContent(p)).m.DownSQL = <<>>
    /\ parseFile(PathNoDown, FileContent(PathNoDown)).m.UpSQL = <<"E">> \o NL \o <<"F">> \o NL
    /\ (/\ AfterRollback /\ last.before # {}
        /\ last.target.file_path # Null
        /\ last.target.file_path[1] \in NoDownScripts \cap files
        /\ last.fault \notin {"get_last", "begin", "remove", "commit"}) =>
          /\ last.err = "none"
          /\ last.read /\ last.tx
          /\ last.sql = <<>>
          /\ ledger = last.before \ {last.target}

\* the row of 005_e.sql was rolled back; what its UP section did stays in place
C15_Witness ==
    /\ AfterRollback /\ last.err = "none"
    /\ last.target.version = V5
    /\ last.target.file_path = <<PathNoDown>>
    /\ last.sql = <<>>
    /\ Cardinality(last.before) = 2
    /\ Cardinality(ledger) = 1
    /\ V5 \in schema

(***************************************************************************)
(* C16  Rollback with a missing source file: when the file at the          *)
(* file_path of the row Rollback selects is not on disk, Rollback returns  *)
(* an error, opens no transaction, sends no SQL and leaves the ledger rows *)
(* as they were; unless its SELECT failed, the error is the one of the     *)
(* re-parse of the script.                                                 *)
(***************************************************************************)
C16_MissingSourceFile ==
    (/\ AfterRollback /\ last.before # {}
     /\ last.target.file_path # Null
     /\ last.target.file_path[1] \notin files) =>
        /\ last.err # "none"
        /\ (last.fault # "get_last" => (last.err = "parse" /\ last.read))
        /\ ~last.tx
        /\ last.sql = <<>>
        /\ ledger = last.before
        /\ last.target \in ledger

C16_Witness ==
    /\ AfterRollback /\ last.err = "parse" /\ last.read
    /\ last.target.file_path # Null
    /\ last.target.file_path[1] \notin files
    /\ last.target.version \in schema
    /\ ledger # {}

(***************************************************************************)
(* C17  Rollback with a source file that no longer contains a DOWN         *)
(* section: when the DOWN section of the script of the row Rollback        *)
(* selects has been deleted since, Rollback returns an error and leaves    *)
(* the ledger rows as they were.  The code cannot tell such a script from  *)
(* one that never had a DOWN section: the reverse SQL is blank, so it      *)
(* sends nothing, deletes the row and returns nil.                         *)
(***************************************************************************)
C17_StrippedDownRefused ==
    (/\ AfterRollback /\ last.before # {}
     /\ last.target.file_path # Null
     /\ last.target.file_path[1] \in stripped \cap files) =>
        /\ last.err # "none"
        /\ ledger = last.before

\* 001 was applied, the DOWN section of 001_a.sql was deleted, Rollback
\* returned nil: the row is gone and what the UP section did is still there
C17_Witness ==
    /\ AfterRollback /\ last.err = "none"
    /\ last.target.file_path = <<Path1>>
    /\ Path1 \in stripped \cap files
    /\ last.sql = <<>>
    /\ last.target \notin ledger
    /\ V1 \in schema

(***************************************************************************)
(* The reset command.                                                      *)
(***************************************************************************)
\* the database is as it was when the reset command started
ResetChangedNothing ==
    /\ tableExists = cli.before.exists
    /\ ledger = cli.before.rows
    /\ schema = cli.before.effects

\* the n-th line typed into the command, without its newline
Answer(n) ==
    LET lines == Split(cli.typed, "\n") IN IF n <= Len(lines) THEN lines[n] ELSE <<>>

\* C18: when the configured environment is production, reset returns an
\* error without printing a prompt or reading stdin, drops no schema and not
\* the ledger table, leaves the database as it was and runs no migration.
C18_ResetRefusesProduction ==
    (cli.pc # "off" /\ cli.env = "production") =>
        /\ cli.pc = "done"
        /\ cli.err = "production"
        /\ cli.prompts = 0
        /\ cli.stdin = cli.typed
        /\ cli.dropped = {}
        /\ ResetChangedNothing
        /\ pc = "idle" /\ last.op = "reset" /\ run = NoRun

\* reset was refused in production although both answers were waiting on
\* stdin and the ledger had rows to lose
C18_Witness ==
    /\ cli.pc = "done"
    /\ cli.env = "production"
    /\ cli.typed = RESET \o NL \o YES \o NL
    /\ cli.before.rows # {}
    /\ cli.before.effects # {}

\* C19: outside production, a schema or the ledger table is dropped only
\* after the first prompt was answered exactly RESET and the second exactly
\* YES; if either answer differs, reset returns nil and the database and the
\* ledger are unchanged.
C19_TwoConfirmations ==
    (cli.pc # "off" /\ cli.env # "production") =>
        /\ cli.dropped # {} => (Answer(1) = RESET /\ Answer(2) = YES)
        /\ (Answer(1) # RESET \/ Answer(2) # YES) =>
               (cli.pc = "done" /\ cli.err = "none" /\ ResetChangedNothing)

\* the one line "RESET xYES" answered the first prompt, nothing was typed at
\* the second, and the schemas and the ledger table were dropped
C19_Witness ==
    /\ cli.typed = RESET \o <<" ", "x">> \o YES \o NL
    /\ cli.prompts = 2
    /\ "migrations" \in cli.dropped
    /\ cli.before.rows # {}
    /\ ledger = {}

(***************************************************************************)
(* The API process at startup.                                             *)
(***************************************************************************)
\* C20: the API process calls RunMigrations at most once, not before it is
\* at that point of its startup; no service, MQTT broker or HTTP listener is
\* started before that one call has returned nil; when the call returns an
\* error the process exits with nothing started and the HTTP server never
\* serves.
C20_StartupOrdering ==
    /\ api.calls <= 1
    /\ api.pc \in {"boot", "migrate"} => api.calls = 0
    /\ api.pc \in {"migrate", "migrating"} => (api.started = <<>> /\ api.http = "none")
    /\ (api.started # <<>> \/ api.http # "none") => (api.calls = 1 /\ api.result = "none")
    /\ api.result \notin {"", "none"} =>
          /\ api.pc = "exited"
          /\ api.exit = "migrations"
          /\ api.started = <<>>
          /\ api.http = "none"

\* RunMigrations applied one script and failed on the next: the process
\* exited with nothing started
C20_Witness ==
    /\ api.pc = "exited"
    /\ api.calls = 1
    /\ api.result \in ApplyErrs
    /\ run.applied # <<>>
    /\ run.failed # <<>>
    /\ api.started = <<>>

(***************************************************************************)
(* The marker lines of a script.                                           *)
(***************************************************************************)
UpperRune(c) ==
    CASE c = "d" -> "D" [] c = "o" -> "O" [] c = "w" -> "W" [] c = "n" -> "N"
      [] c = "u" -> "U" [] c = "p" -> "P" [] c = "b" -> "B" [] OTHER -> c

ToUpper(s) == [i \in 1..Len(s) |-> UpperRune(s[i])]

\* the line is a marker in the sense of the specification: its trimmed
\* text, the case of the keyword apart, is the marker
IsMarkerLine(line, marker) == ToUpper(TrimSpace(line)) = marker

\* the two sections as the specification describes them
RECURSIVE SectionsOf(_, _, _, _)
SectionsOf(lines, inDown, ups, downs) ==
    IF lines = <<>> THEN <<ups, downs>>
    ELSE IF IsMarkerLine(Head(lines), DownMarker)
    THEN SectionsOf(Tail(lines), TRUE, ups, downs)
    ELSE IF IsMarkerLine(Head(lines), UpMarker)
    THEN SectionsOf(Tail(lines), FALSE, ups, downs)
    ELSE IF inDown THEN SectionsOf(Tail(lines), inDown, ups, Append(downs, Head(lines)))
    ELSE SectionsOf(Tail(lines), inDown, Append(ups, Head(lines)), downs)

ProbeLines == Split(probe.content, "\n")

\* C21: a line whose trimmed text is the DOWN marker starts the reverse
\* section and one whose trimmed text is the UP marker switches back to the
\* forward section, with surrounding whitespace tolerated and the keyword
\* matched in any case; marker lines belong to neither section.
C21_MarkerMatching ==
    probe.done =>
        LET r == SectionsOf(ProbeLines, FALSE, <<>>, <<>>)
        IN  /\ probe.up = Join(r[1], "\n")
            /\ probe.down = Join(r[2], "\n")

\* "-- down" after a line of SQL: the reverse section returned is empty and
\* the marker line is part of the forward section
C21_Witness ==
    /\ probe.done
    /\ probe.content = <<"A">> \o NL \o DownMarkerLower \o NL \o <<"b">>
    /\ probe.down = <<>>
    /\ probe.up = probe.content

\* the line starts, in either spelling the engine accepts, with the marker
StartsWithMarker(line, marker, tight) ==
    HasPrefix(TrimSpace(line), marker) \/ HasPrefix(TrimSpace(line), tight)

\* the lines of the last DOWN block of a script
RECURSIVE LastDownBlock(_, _, _)
LastDownBlock(lines, inDown, block) ==
    IF lines = <<>> THEN block
    ELSE IF StartsWithMarker(Head(lines), DownMarker, DownMarkerTight)
    THEN LastDownBlock(Tail(lines), TRUE, <<>>)
    ELSE IF StartsWithMarker(Head(lines), UpMarker, UpMarkerTight)
    THEN LastDownBlock(Tail(lines), FALSE, block)
    ELSE LastDownBlock(Tail(lines), inDown, IF inDown THEN Append(block, Head(lines)) ELSE block)

\* C22: the reverse SQL a Rollback executes is the last contiguous DOWN block
\* of the script, not an earlier DOWN block.
C22_LastDownBlockOnly ==
    (AfterRollback /\ last.sql # <<>>) =>
        LET content == ReadFile(stripped, last.target.file_path[1])
        IN  last.sql = <<Join(LastDownBlock(Split(content, "\n"), FALSE, <<>>), "\n")>>

\* the script with two DOWN blocks was rolled back: the SQL executed holds
\* the first block and the second
C22_Witness ==
    /\ AfterRollback
    /\ last.err = "none"
    /\ last.target.file_path = <<PathMulti>>
    /\ last.sql = <<<<"m">> \o NL \o <<"n">>>>

(***************************************************************************)
(* The rows of the ledger.                                                 *)
(***************************************************************************)
\* a row appears only at a successful apply, disappears only at a successful
\* Rollback
InsertedAtApplyDeletedAtRollback ==
    /\ \A new \in ledger' :
          new.version \notin Versions(ledger) =>
              (pc = "running" /\ run'.applied = Append(run.applied, new.version))
    /\ \A old \in ledger :
          old.version \notin Versions(ledger') => (last'.op = "down" /\ last'.err = "none")

\* C23 as stated: a ledger row is only ever inserted (at a successful
\* apply) or deleted (at a successful rollback); no operation changes a
\* field of an existing row.
C23_RowsNeverMutated ==
    [][/\ InsertedAtApplyDeletedAtRollback
       /\ \A old \in ledger, new \in ledger' : old.version = new.version => new = old]_vars

\* C23, amended: a ledger row is only ever inserted (at a successful apply)
\* or deleted (at a successful rollback); the one change of an existing row
\* is the backfill of the self-upgrade, which at the start of a run on a
\* table without the module column sets a NULL module to 'legacy' and
\* leaves version, description, file_path and executed_at as they were.
C23_OnlyBackfillMutates ==
    [][/\ InsertedAtApplyDeletedAtRollback
       /\ \A old \in ledger, new \in ledger' :
             old.version = new.version =>
                \/ new = old
                \/ /\ pc = "idle" /\ "module" \notin cols /\ cols' = AllCols
                   /\ old.module = Null
                   /\ new = [old EXCEPT !.module = <<"legacy">>]]_vars

\* a row written before the upgrade carries the backfilled module, beside a
\* row inserted by the run that upgraded the table
C23_Witness ==
    /\ RunReturned
    /\ run.applied # <<>>
    /\ \E r \in ledger : r.module = <<"legacy">> /\ r.file_path = Null
    /\ \E r \in ledger : r.module # <<"legacy">> /\ r.version \in Elems(run.applied)

(***************************************************************************)
(* The ledger and the effects of the scripts.                              *)
(***************************************************************************)
\* the versions of the scripts on disk that have forward SQL
VersionsWithUpSQL ==
    {parseMigrationFile(files, stripped, p).m.Version :
        p \in {x \in Parseable(files) :
                  ~Blank(parseMigrationFile(files, stripped, x).m.UpSQL)}}

\* C24 as stated: in every state between operations a version is in the
\* ledger if and only if the effects of its UP script are committed and not
\* reverted.
C24_LedgerSchemaInSync ==
    pc = "idle" =>
        \A v \in VersionsWithUpSQL \cup schema : v \in Versions(ledger) <=> v \in schema

\* C24, amended: every step commits the UP effects of a version only
\* together with the insert of its ledger row and reverts them only together
\* with the delete of that row; a row is inserted without UP effects only
\* when the script has no forward SQL or the effects are already in place,
\* and a row is deleted with the UP effects left in place only when the
\* Rollback found no reverse SQL in the script.
C24_EffectsFollowLedger ==
    [][\A v \in Versions(ledger) \cup Versions(ledger') \cup schema \cup schema' :
          LET rowIn  == v \in Versions(ledger') \ Versions(ledger)
              rowOut == v \in Versions(ledger) \ Versions(ledger')
              effIn  == v \in schema' \ schema
              effOut == v \in schema \ schema'
          IN  /\ effIn => rowIn
              /\ effOut => rowOut
              /\ (rowIn /\ ~effIn) => (v \in schema \/ Blank(Head(queue).UpSQL))
              /\ (rowOut /\ ~effOut) => (v \notin schema \/ last'.sql = <<>>)]_vars

\* a script without a DOWN section was applied and rolled back: its row is
\* gone and its effects are in place
C24_Witness ==
    /\ AfterRollback
    /\ last.err = "none"
    /\ last.target.file_path = <<PathNoDown>>
    /\ V5 \in schema
    /\ V5 \notin Versions(ledger)

(***************************************************************************)
(* The self-upgrade of the ledger table.                                   *)
(***************************************************************************)
LedgerTable == [exists |-> tableExists, cols |-> cols, rows |-> ledger]

\* the failures of an ALTER or of the UPDATE of the upgrade
UpgradeFaults == {"add_module", "add_file_path", "update"}

\* C25: createMigrationsTable on a ledger table in the current format issues
\* no ALTER and no UPDATE (a failure injected into one of them cannot occur)
\* and changes neither the columns nor a row; after one successful
\* invocation on any table, old format included, a further invocation
\* changes nothing.
C25_SelfUpgradeIdempotent ==
    LET once == createMigrationsTable(LedgerTable, "none") IN
    /\ (tableExists /\ cols = AllCols) =>
           \A f \in UpgradeFaults \cup {"none"} :
               createMigrationsTable(LedgerTable, f) = [db |-> LedgerTable, err |-> "none"]
    /\ once.err = "none" =>
           \A f \in UpgradeFaults \cup {"none"} :
               createMigrationsTable(once.db, f) = [db |-> once.db, err |-> "none"]

\* a run upgraded an old-format table that held a row, and the run after it
\* ensured the table again
C25_Witness ==
    /\ RunReturned
    /\ run.prev = "ok"
    /\ cols = AllCols
    /\ \E r \in ledger : r.module = <<"legacy">>

\* the errors with which createMigrationsTable returns
EnsureErrs == {"create", "check_column", "add_module", "add_file_path", "update"}

\* C26: once a run has upgraded an old-format ledger table, every row that
\* was in it has a non-null module and a non-null file_path.
C26_BackfilledRows ==
    (RunCurrent /\ last.err \notin EnsureErrs /\ run.startLedger # {}) =>
        \A r \in ledger : r.module # Null /\ r.file_path # Null

\* the row of an upgraded table has module 'legacy' and a NULL file_path,
\* and a Rollback with no failure injected fails on reading it
C26_Witness ==
    /\ AfterRollback
    /\ last.fault = "none"
    /\ last.err = "get_last"
    /\ cols = AllCols
    /\ last.target.module = <<"legacy">>
    /\ last.target.file_path = Null
    /\ ledger = last.before

\* C29: whenever createMigrationsTable has returned nil, the ledger table
\* exists with both the module and the file_path column, whatever earlier
\* invocations did, one that failed between the two ALTERs included.
C29_EnsuredTableComplete ==
    (RunCurrent /\ last.err \notin EnsureErrs) => (tableExists /\ cols = AllCols)

\* createMigrationsTable returned nil on a table with module and without
\* file_path, and the loop of the run is under way
C29_Witness ==
    /\ pc = "running"
    /\ tableExists
    /\ cols = {"module"}
    /\ queue # <<>>

(***************************************************************************)
(* Two processes in RunMigrations at once.                                 *)
(***************************************************************************)
\* C27: nothing guards the "already applied" check against another process:
\* whenever a process makes the check for a version that is absent from the
\* committed ledger it passes, whatever transaction the other process has
\* open; so both processes can pass the check for one version and both
\* execute its UP SQL.
C27_CheckPassesWhileAbsent ==
    [][\A r \in Runners :
          (/\ race[r].pc = "check"
           /\ race'[r] # race[r]
           /\ Head(race[r].queue).Version \notin Versions(ledger)) =>
              /\ race'[r].pc = "begin"
              /\ Head(race[r].queue).Version \in race'[r].passed]_vars

\* both processes passed the check for version 001 while it was absent from
\* the ledger, and both have executed its UP SQL in an open transaction
C27_Witness ==
    /\ V1 \notin Versions(ledger)
    /\ \A r \in Runners :
          /\ V1 \in race[r].passed
          /\ V1 \in race[r].executed
          /\ race[r].pc = "insert"
          /\ race[r].tx.effects = {V1}

\* C28: for any interleaving of two runs the ledger never holds two rows of
\* one version and no version is committed by both processes; the process
\* whose INSERT conflicts has its transaction rolled back, UP effects
\* included, and its run ended with that error.
C28_LedgerUniqueUnderRace ==
    /\ \A x, y \in ledger : x.version = y.version => x = y
    /\ race[1].committed \cap race[2].committed = {}
    /\ schema \subseteq Versions(ledger)
    /\ \A r \in Runners :
          race[r].err = "record" =>
              /\ race[r].pc = "done"
              /\ race[r].queue = <<>>
              /\ race[r].tx = NoTx
              /\ race[r].executed \ race[r].committed # {} =>
                     \E v \in race[r].executed \ race[r].committed :
                         v \in race[OtherRunner(r)].committed \/ v \in Versions(ledger)

\* both processes executed the UP SQL of version 001; the first committed it
\* and the INSERT of the second failed on the primary key
C28_Witness ==
    /\ V1 \in race[1].committed
    /\ V1 \in race[2].passed
    /\ V1 \in race[2].executed
    /\ race[2].err = "record"
    /\ race[2].pc = "done"
    /\ Cardinality({x \in ledger : x.version = V1}) = 1

(***************************************************************************)
(* The version of a new script.                                            *)
(***************************************************************************)
\* C30: the version CreateMigrationFile assigns is greater than the integer
\* version of every ledger row and of every script already in the corpus,
\* and the file it writes is not one that was there.
C30_NewVersionFresh ==
    (created.pc = "done" /\ created.err = "none") =>
        /\ \A r \in ledger : VersionInt(r.version) < created.version
        /\ \A v \in CorpusVersions(created.before) : VersionInt(v) < created.version
        /\ created.path \notin created.before

\* with 001 applied and 002_b.sql on disk and not applied, the new script
\* "b" of user_management was written over 002_b.sql
C30_Witness ==
    /\ created.pc = "done"
    /\ created.err = "none"
    /\ Versions(ledger) = {V1}
    /\ created.version = 2
    /\ created.path = Path2
    /\ Path2 \in created.before

====
